---- MODULE Spec2Model ----
(***************************************************************************)
(* The ElevenLabs plugin of COVAS:NEXT (src/cn-plugin-elevenlabs.py):      *)
(* ElevenLabsPlugin.create_model, the speech-to-text adapter               *)
(* (ElevenLabsSTTModel) and the text-to-speech adapter                     *)
(* (ElevenLabsTTSModel), whose synthesize is a Python generator.           *)
(***************************************************************************)
EXTENDS Integers, Sequences, FiniteSets, TLC

\* ------------------------------------------------------------------ bounds
\* adapters the host holds at a time
MaxModels == 2
\* chunks one vendor stream delivers
MaxChunks == 3
\* characters of a vendor transcription text
MaxTextLen == 4

\* ----------------------------------------------------------- Python values
\* A settings value is a Python scalar: a type tag, a string payload and a
\* numeric payload (a float is kept in hundredths, an int as it is).
PyNone == [t |-> "none", s |-> "", n |-> 0]
PyStr(s) == [t |-> "str", s |-> s, n |-> 0]
PyInt(n) == [t |-> "int", s |-> "", n |-> n]
PyFlt(h) == [t |-> "float", s |-> "", n |-> h]

\* bool(v): None, "", 0 and 0.0 are falsy.
Truthy(v) ==
    CASE v.t = "none" -> FALSE
      [] v.t = "str" -> v.s # ""
      [] OTHER -> v.n # 0

\* An exception object: its type and the parts of its message.
NoExc == [type |-> "", msg |-> <<>>]
Exc(type, msg) == [type |-> type, msg |-> msg]

\* The strings float() parses among those the settings can carry.
FloatLiterals == {<<"0.3", 30>>, <<"1", 100>>}

\* float(v): a float is kept, an int converted, a string parsed; None is a
\* TypeError and an unparsable string a ValueError.
PyFloat(v) ==
    CASE v.t = "float" -> [exc |-> NoExc, v |-> v]
      [] v.t = "int" -> [exc |-> NoExc, v |-> PyFlt(100 * v.n)]
      [] v.t = "str" ->
            IF \E p \in FloatLiterals : p[1] = v.s
            THEN [exc |-> NoExc,
                  v |-> PyFlt((CHOOSE p \in FloatLiterals : p[1] = v.s)[2])]
            ELSE [exc |-> Exc("ValueError",
                              <<"could not convert string to float: ", v.s>>),
                  v |-> PyNone]
      [] OTHER -> [exc |-> Exc("TypeError",
                              <<"float() argument must be a string or a real number">>),
                   v |-> PyNone]

\* ---------------------------------------------------------------- settings
\* A settings mapping is a function from the keys it holds to their values.
SettingKeys ==
    {"elevenlabs_api_key", "elevenlabs_stt_model_id", "elevenlabs_stt_language",
     "elevenlabs_model_id", "elevenlabs_voice_id", "elevenlabs_stability",
     "elevenlabs_similarity_boost", "elevenlabs_style"}

\* dict.get(key, default)
get(settings, key, default) ==
    IF key \in DOMAIN settings THEN settings[key] ELSE default

\* Marks a key the mapping does not hold, while the mappings are enumerated.
ABSENT == [t |-> "absent", s |-> "", n |-> 0]

EmptySettings == [k \in {} |-> PyNone]

\* The mapping that holds the keys given a value other than ABSENT.
Mapping(api, sttm, lang, mdl, voice, stab, sim, sty) ==
    LET f == [k \in SettingKeys |->
                CASE k = "elevenlabs_api_key" -> api
                  [] k = "elevenlabs_stt_model_id" -> sttm
                  [] k = "elevenlabs_stt_language" -> lang
                  [] k = "elevenlabs_model_id" -> mdl
                  [] k = "elevenlabs_voice_id" -> voice
                  [] k = "elevenlabs_stability" -> stab
                  [] k = "elevenlabs_similarity_boost" -> sim
                  [] OTHER -> sty]
    IN [k \in {x \in SettingKeys : f[x] # ABSENT} |-> f[k]]

\* The mappings create_model is tried on: those of the speech-to-text keys
\* and those of the text-to-speech keys, every key absent or present, the
\* API key also empty or None, a number also an int, a string or None.
RichSettings ==
    {Mapping(api, sttm, lang, ABSENT, ABSENT, ABSENT, ABSENT, ABSENT) :
        api \in {ABSENT, PyStr(""), PyNone, PyStr("key-A")},
        sttm \in {ABSENT, PyStr("scribe_v2")},
        lang \in {ABSENT, PyStr(""), PyStr("en")}}
    \cup
    {Mapping(api, ABSENT, ABSENT, mdl, voice, stab, sim, sty) :
        api \in {ABSENT, PyStr(""), PyNone, PyStr("key-A")},
        mdl \in {ABSENT, PyStr("eleven_turbo_v2")},
        voice \in {ABSENT, PyStr("voice-X")},
        stab \in {ABSENT, PyInt(1), PyStr("0.3"), PyStr("high")},
        sim \in {ABSENT, PyNone},
        sty \in {ABSENT, PyFlt(20)}}

ProviderIds == {"elevenlabs-stt", "elevenlabs-tts", "elevenlabs", ""}

\* ---------------------------------------------------------------- adapters
\* self._client = None
NoClient == [api_key |-> PyNone, owner |-> <<"", 0>>, serial |-> 0]

\* ElevenLabsSTTModel.__init__
ElevenLabsSTTModel(api_key, model_id, language_code) ==
    [name |-> "elevenlabs-stt", api_key |-> api_key, model_id |-> model_id,
     language_code |-> language_code, client |-> NoClient]

\* ElevenLabsTTSModel.__init__
ElevenLabsTTSModel(api_key, model_id, stability, similarity_boost, style, use_speaker_boost) ==
    [name |-> "elevenlabs-tts", api_key |-> api_key, model_id |-> model_id,
     stability |-> stability, similarity_boost |-> similarity_boost,
     style |-> style, use_speaker_boost |-> use_speaker_boost,
     client |-> NoClient]

\* ------------------------------------------------------------ create_model
\* What a call of create_model gives the host: the adapter it returns (in
\* stt or tts, a sequence of none or one) or the exception it raises, and
\* the keys it asked the settings mapping for.
Returned(stt, tts, read) ==
    [outcome |-> "return", exc |-> NoExc, stt |-> stt, tts |-> tts, read |-> read]

Raised(exc, read) ==
    [outcome |-> "raise", exc |-> exc, stt |-> <<>>, tts |-> <<>>, read |-> read]

\* MissingKey testing only for None: `if api_key is None`.
MissingKeyOnlyNone(api_key) == api_key = PyNone

\* if not api_key
MissingKey(api_key) == ~Truthy(api_key)

\* settings.get('elevenlabs_stt_language', '') or None
OrNone(v) == IF Truthy(v) THEN v ELSE PyNone

\* UnknownProvider with a message that leaves the id out.
UnknownProviderUnnamed(provider_id) ==
    Exc("ValueError", <<"Unknown ElevenLabs provider">>)

\* raise ValueError(f'Unknown ElevenLabs provider: {provider_id}')
UnknownProvider(provider_id) ==
    Exc("ValueError", <<"Unknown ElevenLabs provider: ", provider_id>>)

\* The keys the text-to-speech branch reads, in the order it reads them.
TTSKeys ==
    <<"elevenlabs_api_key", "elevenlabs_model_id", "elevenlabs_stability",
      "elevenlabs_similarity_boost", "elevenlabs_style">>

ReadUpTo(n) == {TTSKeys[i] : i \in 1..n}

\* The elevenlabs-stt branch of create_model.
create_stt(settings) ==
    LET api_key == get(settings, "elevenlabs_api_key", PyStr(""))
        model_id == get(settings, "elevenlabs_stt_model_id", PyStr("scribe_v1"))
        language_code == OrNone(get(settings, "elevenlabs_stt_language", PyStr("")))
    IN  IF MissingKey(api_key)
        THEN Raised(Exc("ValueError", <<"ElevenLabs STT: No API key provided">>),
                    {"elevenlabs_api_key"})
        ELSE Returned(<<ElevenLabsSTTModel(api_key, model_id, language_code)>>, <<>>,
                      {"elevenlabs_api_key", "elevenlabs_stt_model_id",
                       "elevenlabs_stt_language"})

\* The elevenlabs-tts branch of create_model; use_speaker_boost is left to
\* the constructor's default, True.
create_tts(settings) ==
    LET api_key == get(settings, "elevenlabs_api_key", PyStr(""))
        model_id == get(settings, "elevenlabs_model_id", PyStr("eleven_flash_v2_5"))
        stability == PyFloat(get(settings, "elevenlabs_stability", PyFlt(50)))
        similarity_boost ==
            PyFloat(get(settings, "elevenlabs_similarity_boost", PyFlt(75)))
        style == PyFloat(get(settings, "elevenlabs_style", PyFlt(0)))
    IN  IF MissingKey(api_key)
        THEN Raised(Exc("ValueError", <<"ElevenLabs TTS: No API key provided">>),
                    ReadUpTo(1))
        ELSE IF stability.exc # NoExc THEN Raised(stability.exc, ReadUpTo(3))
        ELSE IF similarity_boost.exc # NoExc
             THEN Raised(similarity_boost.exc, ReadUpTo(4))
        ELSE IF style.exc # NoExc THEN Raised(style.exc, ReadUpTo(5))
        ELSE Returned(<<>>,
                      <<ElevenLabsTTSModel(api_key, model_id, stability.v,
                                           similarity_boost.v, style.v, TRUE)>>,
                      ReadUpTo(5))

\* ElevenLabsPlugin.create_model
create_model(provider_id, settings) ==
    IF provider_id = "elevenlabs-stt" THEN create_stt(settings)
    ELSE IF provider_id = "elevenlabs-tts" THEN create_tts(settings)
    ELSE Raised(UnknownProvider(provider_id), {})

\* ------------------------------------------------------------------- state
VARIABLES
    sttModels,  \* the speech-to-text adapters the host holds
    ttsModels,  \* the text-to-speech adapters the host holds
    clients,    \* every vendor client constructed so far
    gens,       \* the generators synthesize has returned
    last        \* the most recent call and what it gave the host

vars == <<sttModels, ttsModels, clients, gens, last>>

\* log('error', f"{text}{e}")
LogError(text, e) == [level |-> "error", text |-> text, exc |-> e]

\* A vendor transcription result: its .text, None or a string of characters.
SttResult(text_none, text) == [exc |-> NoExc, text_none |-> text_none, text |-> text]
SttFailure(e) == [exc |-> e, text_none |-> TRUE, text |-> <<>>]

Blank ==
    [op |-> "", provider_id |-> "", settings |-> EmptySettings, outcome |-> "",
     exc |-> NoExc, stt |-> <<>>, tts |-> <<>>, read |-> {}, idx |-> 0,
     client |-> NoClient, made |-> {}, fault |-> NoExc,
     response |-> SttFailure(NoExc), value |-> <<>>, logged |-> <<>>,
     requests |-> <<>>]

\* -------------------------------------------------------------- _get_client
CtorError == Exc("RuntimeError", <<"client construction failed">>)

\* The clients the adapter `owner` has constructed so far.
MadeBy(owner) == {c \in clients : c.owner = owner}

\* ElevenLabs(api_key=self.api_key): a new client object; owner and serial
\* note the adapter that made it and which of its clients it is.
ElevenLabs(api_key, owner) ==
    [api_key |-> api_key, owner |-> owner, serial |-> Cardinality(MadeBy(owner)) + 1]

\* get_client without the `if self._client is None` test: a client is
\* constructed at every call.
get_client_fresh(self, owner, ctor) ==
    CASE ctor = "ok" ->
            [client |-> ElevenLabs(self.api_key, owner),
             made |-> {ElevenLabs(self.api_key, owner)},
             exc |-> NoExc, logged |-> <<>>]
      [] OTHER ->
            [client |-> NoClient, made |-> {}, exc |-> CtorError, logged |-> <<>>]

\* get_client keeping the client in a place all adapters share (a class
\* attribute): the first client constructed serves every adapter.
get_client_shared(self, owner, ctor) ==
    IF clients # {}
    THEN [client |-> CHOOSE c \in clients : TRUE, made |-> {}, exc |-> NoExc,
          logged |-> <<>>]
    ELSE [client |-> ElevenLabs(self.api_key, owner),
          made |-> {ElevenLabs(self.api_key, owner)},
          exc |-> NoExc, logged |-> <<>>]

\* _get_client of either adapter, importing and constructing the client
\* ending as ctor says ("ok", "ImportError" or "error"): the handle, the
\* client it constructed (none or one), the exception it raised and what it
\* logged.
get_client(self, owner, ctor) ==
    IF self.client = NoClient
    THEN CASE ctor = "ok" ->
                [client |-> ElevenLabs(self.api_key, owner),
                 made |-> {ElevenLabs(self.api_key, owner)},
                 exc |-> NoExc, logged |-> <<>>]
           [] ctor = "ImportError" ->
                [client |-> NoClient, made |-> {},
                 exc |-> Exc("ImportError",
                             <<"elevenlabs is not installed. Install it with: pip install elevenlabs">>),
                 logged |-> <<>>]
           [] OTHER ->
                [client |-> NoClient, made |-> {}, exc |-> CtorError,
                 logged |-> <<LogError("Failed to initialize ElevenLabs client: ",
                                       CtorError)>>]
    ELSE [client |-> self.client, made |-> {}, exc |-> NoExc, logged |-> <<>>]

\* Reraise without the `raise`: the exception is logged and swallowed.
ReraiseSwallowed(text, e, requests) ==
    [outcome |-> "return", exc |-> NoExc, value |-> <<>>,
     logged |-> <<LogError(text, e)>>, requests |-> requests]

\* except Exception as e: log('error', ...); raise
Reraise(text, e, requests) ==
    [outcome |-> "raise", exc |-> e, value |-> <<>>,
     logged |-> <<LogError(text, e)>>, requests |-> requests]

\* --------------------------------------------------------------- transcribe
Whitespace == {" ", "\t", "\n"}

TextChars == {" ", "\t", "h"}

TextsUpTo(n) == UNION {[1..k -> TextChars] : k \in 0..n}

RECURSIVE lstrip(_)
lstrip(s) == IF s # <<>> /\ Head(s) \in Whitespace THEN lstrip(Tail(s)) ELSE s

RECURSIVE rstrip(_)
rstrip(s) ==
    IF s # <<>> /\ s[Len(s)] \in Whitespace
    THEN rstrip(SubSeq(s, 1, Len(s) - 1))
    ELSE s

\* strip removing the leading whitespace only: str.lstrip().
strip_leading(s) == lstrip(s)

\* str.strip()
strip(s) == rstrip(lstrip(s))

\* result.text.strip() if result.text else ""
TextOf(result) ==
    IF ~result.text_none /\ result.text # <<>> THEN strip(result.text) ELSE <<>>

\* The keyword arguments of client.speech_to_text.convert.
SttKwargs(self) ==
    LET base == [k \in {"file", "model_id"} |->
                    IF k = "file" THEN PyStr("audio.wav") ELSE self.model_id]
    IN  IF Truthy(self.language_code)
        THEN [k \in {"file", "model_id", "language_code"} |->
                 IF k = "language_code" THEN self.language_code ELSE base[k]]
        ELSE base

AudioError == Exc("ValueError", <<"audio could not be converted">>)
VendorError == Exc("ApiError", <<"the vendor call failed">>)

\* The outcomes of client.speech_to_text.convert.
SttResponses(texts) ==
    {SttFailure(VendorError), SttResult(TRUE, <<>>)}
        \cup {SttResult(FALSE, t) : t \in texts}

\* The try block of transcribe.
transcribe_try(self, wav, resp) ==
    IF wav # NoExc
    THEN Reraise("ElevenLabs STT transcription failed: ", wav, <<>>)
    ELSE IF resp.exc # NoExc
    THEN Reraise("ElevenLabs STT transcription failed: ", resp.exc,
                 <<SttKwargs(self)>>)
    ELSE [outcome |-> "return", exc |-> NoExc, value |-> TextOf(resp),
          logged |-> <<>>, requests |-> <<SttKwargs(self)>>]

\* ElevenLabsSTTModel.transcribe on the i-th adapter held. The call record
\* notes the client used and whether this call made it, the exception raised
\* inside the try block (fault) and the vendor's answer if the call was made.
transcribe(i, ctor, wav, resp) ==
    LET self == sttModels[i]
        gc == get_client(self, <<"stt", i>>, ctor)
        r == transcribe_try(self, wav, resp)
    IN  IF gc.exc # NoExc
        THEN /\ last' = [Blank EXCEPT !.op = "transcribe", !.idx = i,
                                      !.outcome = "raise", !.exc = gc.exc,
                                      !.logged = gc.logged]
             /\ UNCHANGED <<sttModels, ttsModels, clients, gens>>
        ELSE /\ sttModels' = [sttModels EXCEPT ![i].client = gc.client]
             /\ clients' = clients \cup gc.made
             /\ last' = [Blank EXCEPT !.op = "transcribe", !.idx = i,
                                      !.client = gc.client, !.made = gc.made,
                                      !.fault = IF wav # NoExc THEN wav ELSE resp.exc,
                                      !.response = IF wav # NoExc
                                                   THEN SttFailure(NoExc) ELSE resp,
                                      !.outcome = r.outcome, !.exc = r.exc,
                                      !.value = r.value, !.logged = r.logged,
                                      !.requests = r.requests]
             /\ UNCHANGED <<ttsModels, gens>>

\* in: the outcomes the environment is tried on (see RichInputs).
Transcribe(in) ==
    \E i \in 1..Len(sttModels), ctor \in in.ctors, wav \in in.wavs,
       resp \in SttResponses(in.texts) :
        transcribe(i, ctor, wav, resp)

\* ------------------------------------------------------------ host, create
\* The host calls create_model on a settings mapping; with keep it holds on
\* to the adapter returned, without it the adapter is dropped after the call.
CreateModel(ids, mappings, keep) ==
    \E provider_id \in ids, settings \in mappings :
        LET r == create_model(provider_id, settings)
            kept_stt == IF keep THEN r.stt ELSE <<>>
            kept_tts == IF keep THEN r.tts ELSE <<>>
        IN  /\ Len(sttModels) + Len(ttsModels) + Len(kept_stt) + Len(kept_tts)
                    <= MaxModels
            /\ sttModels' = sttModels \o kept_stt
            /\ ttsModels' = ttsModels \o kept_tts
            /\ last' = [Blank EXCEPT !.op = "create_model",
                                     !.provider_id = provider_id,
                                     !.settings = settings,
                                     !.outcome = r.outcome, !.exc = r.exc,
                                     !.stt = r.stt, !.tts = r.tts,
                                     !.read = r.read]
            /\ UNCHANGED <<clients, gens>>

\* --------------------------------------------------------------- synthesize
\* A chunk of the vendor stream: a bytes object or something else, and its
\* content.
Bytes(data) == [bytes |-> TRUE, data |-> data]
NotBytes(data) == [bytes |-> FALSE, data |-> data]

\* Passes without the emptiness test: `if isinstance(chunk, bytes)`.
PassesAnyBytes(chunk) == chunk.bytes

\* if isinstance(chunk, bytes) and chunk
Passes(chunk) == chunk.bytes /\ chunk.data # <<>>

\* What the vendor stream goes on to deliver: chunks, then its end or a
\* failure.
Future(chunks, ending) == [chunks |-> chunks, ending |-> ending]

FuturesUpTo(alphabet, n, endings) ==
    {Future(c, e) : c \in UNION {[1..k -> alphabet] : k \in 0..n},
                    e \in endings}

StreamError == Exc("ConnectionError", <<"the stream broke">>)

\* The first chunk at or after i that passes the filter, or one past the end.
RECURSIVE Advance(_, _)
Advance(chunks, i) ==
    IF i > Len(chunks) \/ Passes(chunks[i]) THEN i ELSE Advance(chunks, i + 1)

\* RunLoop pulling the chunk after the one it yields before yielding it.
RunLoopAhead(future) ==
    LET i == Advance(future.chunks, 1)
        j == IF i < Len(future.chunks) THEN i + 1 ELSE i
    IN  IF i <= Len(future.chunks)
        THEN [pulled |-> SubSeq(future.chunks, 1, j), stop |-> "yield",
              chunk |-> <<future.chunks[i]>>]
        ELSE [pulled |-> future.chunks, stop |-> future.ending, chunk |-> <<>>]

\* for chunk in audio_stream: if ...: yield chunk -- one resumption of the
\* loop: the chunks it pulls from the vendor and where it stops.
RunLoop(future) ==
    LET i == Advance(future.chunks, 1)
    IN  IF i <= Len(future.chunks)
        THEN [pulled |-> SubSeq(future.chunks, 1, i), stop |-> "yield",
              chunk |-> <<future.chunks[i]>>]
        ELSE [pulled |-> future.chunks, stop |-> future.ending, chunk |-> <<>>]

\* The keyword arguments of client.text_to_speech.stream.
TtsKwargs(self, text, voice) ==
    [text |-> text, voice_id |-> voice, model_id |-> self.model_id,
     output_format |-> "pcm_24000",
     voice_settings |-> [stability |-> self.stability,
                         similarity_boost |-> self.similarity_boost,
                         style |-> self.style,
                         use_speaker_boost |-> self.use_speaker_boost]]

\* The generator object a call of synthesize returns: nothing of its body
\* has run. It notes the client it used and whether it made it, the calls
\* made to the vendor, the chunks pulled from the vendor stream (delivered)
\* and those handed to the consumer (yielded), the exception raised inside
\* the try block (fault), and the exception and log lines that came out.
NewGen(m, text, voice) ==
    [model |-> m, text |-> text, voice |-> voice, state |-> "created",
     stream |-> "none", client |-> NoClient, made |-> {}, requests |-> <<>>,
     delivered |-> <<>>, yielded |-> <<>>, fault |-> NoExc, exc |-> NoExc,
     logged |-> <<>>]

\* ElevenLabsTTSModel.synthesize(text, voice) on the m-th adapter held; the
\* host plays one sequence of an adapter at a time.
Synthesize(in) ==
    \E m \in 1..Len(ttsModels), voice \in in.voices :
        /\ \A g \in 1..Len(gens) : gens[g].model # m
        /\ gens' = Append(gens, NewGen(m, "hello", voice))
        /\ last' = [Blank EXCEPT !.op = "synthesize"]
        /\ UNCHANGED <<sttModels, ttsModels, clients>>

\* The generator after the except clause has handled e.
Handled(gen, e, stream) ==
    LET h == Reraise("ElevenLabs TTS synthesis failed: ", e, gen.requests)
    IN  [gen EXCEPT !.state = IF h.outcome = "raise" THEN "raised" ELSE "finished",
                    !.stream = stream, !.fault = e, !.exc = h.exc,
                    !.logged = gen.logged \o h.logged]

\* The generator after the loop has run once more on what the vendor delivers.
Looped(gen, future) ==
    LET r == RunLoop(future)
        seen == [gen EXCEPT !.delivered = gen.delivered \o r.pulled]
    IN  CASE r.stop = "yield" ->
                [seen EXCEPT !.state = "suspended",
                             !.yielded = gen.yielded \o r.chunk]
          [] r.stop = "stop" ->
                [seen EXCEPT !.state = "finished", !.stream = "exhausted"]
          [] OTHER -> Handled(seen, StreamError, "failed")

\* The generator after its first resumption, given a client: the try block
\* up to the first yield, opening the vendor call ending as open says.
Started(gen, self, gc, open, future) ==
    LET kwargs == TtsKwargs(self, gen.text, gen.voice)
        called == [gen EXCEPT !.client = gc.client, !.made = gc.made,
                              !.requests = <<kwargs>>]
    IN  IF open # NoExc
        THEN Handled(called, open, "none")
        ELSE Looped([called EXCEPT !.stream = "open"], future)

\* next() on the g-th generator.
gen_next(g, ctor, open, future) ==
    LET gen == gens[g]
        self == ttsModels[gen.model]
        gc == get_client(self, <<"tts", gen.model>>, ctor)
    IN  /\ gen.state \in {"created", "suspended"}
        /\ last' = [Blank EXCEPT !.op = "next"]
        /\ UNCHANGED sttModels
        /\ IF gen.state = "suspended"
           THEN /\ gens' = [gens EXCEPT ![g] = Looped(gen, future)]
                /\ UNCHANGED <<ttsModels, clients>>
           ELSE IF gc.exc # NoExc
           THEN /\ gens' = [gens EXCEPT ![g].state = "raised",
                                        ![g].exc = gc.exc,
                                        ![g].logged = gc.logged]
                /\ UNCHANGED <<ttsModels, clients>>
           ELSE /\ ttsModels' = [ttsModels EXCEPT ![gen.model].client = gc.client]
                /\ clients' = clients \cup gc.made
                /\ gens' = [gens EXCEPT
                              ![g] = Started(gen, self, gc, open, future)]

\* A stream delivers at most in.cap chunks.
GenNext(in) ==
    \E g \in 1..Len(gens), ctor \in in.ctors, open \in in.opens :
        \E future \in FuturesUpTo(in.alphabet, in.cap - Len(gens[g].delivered),
                                   in.endings) :
            gen_next(g, ctor, open, future)

\* What becomes of the vendor stream when the generator's frame is torn down
\* at its yield: nothing in synthesize closes it, so it stays open unless the
\* runtime happens to finalize the unreferenced iterator.
AfterClose == {"open", "reclaimed"}

\* close() on the g-th generator (also what dropping it does): GeneratorExit
\* is raised at the yield and is no Exception, so the handler does not run.
GenClose ==
    \E g \in 1..Len(gens), fate \in AfterClose :
        LET gen == gens[g]
        IN  /\ gen.state \in {"created", "suspended", "abandoned"}
            /\ gens' = [gens EXCEPT
                          ![g].state = "closed",
                          ![g].stream = IF gen.state = "created" THEN "none"
                                        ELSE fate]
            /\ last' = [Blank EXCEPT !.op = "close"]
            /\ UNCHANGED <<sttModels, ttsModels, clients>>

\* The consumer stops iterating the g-th generator and keeps it: the
\* generator stays suspended at its yield and none of its code runs.
GenAbandon ==
    \E g \in 1..Len(gens) :
        /\ gens[g].state = "suspended"
        /\ gens' = [gens EXCEPT ![g].state = "abandoned"]
        /\ last' = [Blank EXCEPT !.op = "abandon"]
        /\ UNCHANGED <<sttModels, ttsModels, clients>>

\* The host drops a generator that has ended.
GenDiscard ==
    \E g \in 1..Len(gens) :
        /\ gens[g].state \in {"finished", "raised", "closed"}
        /\ gens' = SubSeq(gens, 1, g - 1) \o SubSeq(gens, g + 1, Len(gens))
        /\ last' = [Blank EXCEPT !.op = "discard"]
        /\ UNCHANGED <<sttModels, ttsModels, clients>>

\* ---------------------------------------------------------- specifications
\* The mappings of the whole-plugin specification: one with no key, one with
\* an empty API key and two with an API key that differ in every value.
SettingsA ==
    Mapping(PyStr("key-A"), ABSENT, ABSENT, ABSENT, ABSENT, ABSENT, ABSENT, ABSENT)

SettingsB ==
    Mapping(PyStr("key-B"), PyStr("scribe_v2"), PyStr("en"), PyStr("eleven_turbo_v2"),
            PyStr("voice-X"), PyInt(1), PyFlt(90), PyFlt(20))

FewSettings ==
    {EmptySettings,
     Mapping(PyStr(""), PyStr("scribe_v2"), ABSENT, PyStr("eleven_turbo_v2"),
             ABSENT, ABSENT, ABSENT, ABSENT),
     SettingsA, SettingsB}

FewIds == {"elevenlabs-stt", "elevenlabs-tts"}

\* The outcomes the environment is tried on: of constructing the client, of
\* audio.get_wav_data, the vendor texts, of opening the vendor stream, the
\* chunks a stream delivers and how many, and the voices asked for.
FewInputs ==
    [ctors |-> {"ok"}, wavs |-> {NoExc}, texts |-> {<<" ", "h">>},
     opens |-> {NoExc}, alphabet |-> {Bytes(<<1>>)}, cap |-> 1,
     endings |-> {"stop"}, voices |-> {"voice-H"}]

\* Every chunk a vendor stream can deliver: two distinct non-empty bytes
\* chunks, the empty one, and one that is not bytes.
RichChunks == {Bytes(<<1>>), Bytes(<<2>>), Bytes(<<>>), NotBytes(<<1>>)}

RichInputs ==
    [ctors |-> {"ok", "ImportError", "error"}, wavs |-> {NoExc, AudioError},
     texts |-> {<<>>, <<" ", "h", " ">>}, opens |-> {NoExc, VendorError},
     alphabet |-> RichChunks, cap |-> MaxChunks, endings |-> {"stop", "raise"},
     voices |-> {"voice-H", "voice-X"}]

\* transcribe on every vendor text of up to MaxTextLen characters.
TextInputs == [RichInputs EXCEPT !.texts = TextsUpTo(MaxTextLen)]

Init ==
    /\ sttModels = <<>>
    /\ ttsModels = <<>>
    /\ clients = {}
    /\ gens = <<>>
    /\ last = Blank

\* The plugin in the host: adapters are created and kept, then called in any
\* order, the generators of different adapters interleaved. The vendor is
\* kept simple here (FewInputs: no failures, streams of at most one chunk);
\* SpecStream and SpecTranscribe try the calls on every outcome.
Next ==
    \/ CreateModel(FewIds, FewSettings, TRUE)
    \/ Transcribe(FewInputs)
    \/ Synthesize(FewInputs)
    \/ GenNext(FewInputs)
    \/ GenClose

Spec == Init /\ [][Next]_vars

\* create_model alone, on every mapping of RichSettings.
NextCreate == CreateModel(ProviderIds, RichSettings, FALSE)

SpecCreate == Init /\ [][NextCreate]_vars

\* The host holds one adapter of each kind, made by create_model.
InitHeld ==
    /\ sttModels = create_model("elevenlabs-stt", SettingsB).stt
    /\ ttsModels = create_model("elevenlabs-tts", SettingsB).tts
    /\ clients = {}
    /\ gens = <<>>
    /\ last = Blank

\* transcribe alone.
NextTranscribe == Transcribe(TextInputs)

SpecTranscribe == InitHeld /\ [][NextTranscribe]_vars

\* The calls on the adapters held, the vendor stream delivering any chunks.
NextStream ==
    \/ Transcribe(RichInputs)
    \/ Synthesize(RichInputs)
    \/ GenNext(RichInputs)
    \/ GenAbandon
    \/ GenClose
    \/ GenDiscard

SpecStream == InitHeld /\ [][NextStream]_vars

\* ------------------------------------------------------------------ claims
ElevenLabsIds == {"elevenlabs-stt", "elevenlabs-tts"}

Range(seq) == {seq[i] : i \in 1..Len(seq)}

\* The mapping holds no API key, or an empty one.
KeyAbsentOrEmpty(settings) ==
    \/ "elevenlabs_api_key" \notin DOMAIN settings
    \/ settings["elevenlabs_api_key"] = PyStr("")

\* The call just made was create_model for an ElevenLabs provider on a
\* mapping without a credential.
CreatedWithoutKey(call) ==
    /\ call.op = "create_model"
    /\ call.provider_id \in ElevenLabsIds
    /\ KeyAbsentOrEmpty(call.settings)

C1_FailsAtConstruction ==
    CreatedWithoutKey(last) =>
        /\ last.outcome = "raise"
        /\ last.exc.type = "ValueError"
        /\ last.stt = <<>> /\ last.tts = <<>>
        /\ last.made = {} /\ last.requests = <<>>

C1_EveryAdapterHasAKey ==
    /\ \A i \in 1..Len(sttModels) : Truthy(sttModels[i].api_key)
    /\ \A m \in 1..Len(ttsModels) : Truthy(ttsModels[m].api_key)
    /\ \A c \in clients : Truthy(c.api_key)

C1_NothingTouched ==
    CreatedWithoutKey(last') =>
        UNCHANGED <<sttModels, ttsModels, clients, gens>>

\* C1: create_model on a settings mapping whose 'elevenlabs_api_key' is
\* absent or empty raises a configuration error (ValueError) for both
\* provider ids: it returns no adapter, constructs no client, makes no vendor
\* call and leaves every adapter, client and generator as it was. So every
\* adapter that exists, and every client any call constructs, carries a
\* non-empty credential: a missing one never shows at call time.
C1_MissingKeyIsConstructionFailure ==
    /\ [](C1_FailsAtConstruction /\ C1_EveryAdapterHasAKey)
    /\ [][C1_NothingTouched]_vars

\* create_model has just failed on a mapping with an empty API key, while an
\* adapter made earlier holds a client.
C1_Witness ==
    /\ CreatedWithoutKey(last)
    /\ "elevenlabs_api_key" \in DOMAIN last.settings
    /\ last.outcome = "raise"
    /\ clients # {}

\* C2: for a provider_id other than 'elevenlabs-stt' and 'elevenlabs-tts',
\* whatever the settings, create_model raises a configuration error
\* (ValueError) whose message names that provider_id, and returns no adapter.
C2_UnknownProviderNamed ==
    (last.op = "create_model" /\ last.provider_id \notin ElevenLabsIds) =>
        /\ last.outcome = "raise"
        /\ last.exc.type = "ValueError"
        /\ last.provider_id \in Range(last.exc.msg)
        /\ last.stt = <<>> /\ last.tts = <<>>

\* create_model was called with an unknown provider id and a valid API key.
C2_Witness ==
    /\ last.op = "create_model"
    /\ last.provider_id = "elevenlabs"
    /\ "elevenlabs_api_key" \in DOMAIN last.settings
    /\ Truthy(last.settings["elevenlabs_api_key"])
    /\ last.outcome = "raise"

\* A chunk that is a bytes object with at least one byte.
NonEmptyBytes(chunk) == chunk.bytes /\ Len(chunk.data) > 0

\* C3: whatever chunks the vendor stream has delivered, the chunks synthesize
\* has yielded are exactly the non-empty bytes chunks among them, in the
\* vendor's order, none duplicated, altered or dropped.
C3_YieldsNonEmptyBytesInOrder ==
    \A g \in 1..Len(gens) :
        gens[g].yielded = SelectSeq(gens[g].delivered, NonEmptyBytes)

\* A stream that delivered b"\x01", b"", b"\x02" and closed: the generator
\* finished having yielded the first and the third.
C3_Witness ==
    \E g \in 1..Len(gens) :
        /\ gens[g].state = "finished"
        /\ gens[g].delivered = <<Bytes(<<1>>), Bytes(<<>>), Bytes(<<2>>)>>
        /\ gens[g].yielded = <<Bytes(<<1>>), Bytes(<<2>>)>>

\* v is t without its leading and trailing whitespace.
IsTrimOf(v, t) ==
    /\ v # <<>> => (v[1] \notin Whitespace /\ v[Len(v)] \notin Whitespace)
    /\ \E a \in 0..Len(t) :
          /\ a + Len(v) <= Len(t)
          /\ SubSeq(t, a + 1, a + Len(v)) = v
          /\ \A k \in 1..Len(t) :
                (k <= a \/ k > a + Len(v)) => t[k] \in Whitespace

\* The vendor transcription call of the call just made succeeded.
VendorAnswered(call) ==
    /\ call.op = "transcribe"
    /\ call.requests # <<>>
    /\ call.response.exc = NoExc

\* C4: when the vendor transcription call succeeds, transcribe returns the
\* vendor's text without its leading and trailing whitespace, and returns the
\* empty string, not an error, when the vendor's text is None or empty.
C4_ReturnsTrimmedText ==
    VendorAnswered(last) =>
        /\ last.outcome = "return"
        /\ last.exc = NoExc
        /\ IF last.response.text_none \/ last.response.text = <<>>
           THEN last.value = <<>>
           ELSE IsTrimOf(last.value, last.response.text)

\* The vendor answered " h\th " (whitespace around and inside) and transcribe
\* returned "h\th".
C4_Witness ==
    /\ VendorAnswered(last)
    /\ last.response.text = <<" ", "h", "\t", "h">>
    /\ last.value = <<"h", "\t", "h">>

\* The adapter a client object belongs to holds it.
HeldByOwner(c) ==
    IF c.owner[1] = "stt"
    THEN c.owner[2] <= Len(sttModels) /\ sttModels[c.owner[2]].client = c
    ELSE c.owner[2] <= Len(ttsModels) /\ ttsModels[c.owner[2]].client = c

\* C5: over any sequence of transcribe and synthesize calls, each adapter
\* constructs its client at most once, and every call that uses a client uses
\* the one its adapter holds, which is the one the first such call made.
C5_ClientConstructedAtMostOnce ==
    /\ \A c \in clients : c.serial = 1 /\ HeldByOwner(c)
    /\ \A i \in 1..Len(sttModels) :
          sttModels[i].client \in clients \cup {NoClient}
    /\ \A m \in 1..Len(ttsModels) :
          ttsModels[m].client \in clients \cup {NoClient}
    /\ \A g \in 1..Len(gens) :
          gens[g].client # NoClient =>
              gens[g].client = ttsModels[gens[g].model].client
    /\ (last.op = "transcribe" /\ last.client # NoClient) =>
          last.client = sttModels[last.idx].client

\* A transcribe call and a generator each used their adapter's client without
\* making it: an earlier call on the same adapter had.
C5_Witness ==
    /\ last.op = "transcribe" /\ last.client # NoClient /\ last.made = {}
    /\ \E g \in 1..Len(gens) : gens[g].client # NoClient /\ gens[g].made = {}

\* The log holds a line for the exception e.
Logs(logged, e) == \E k \in 1..Len(logged) : logged[k].exc = e

C6_TranscribeFailureSurfaced ==
    (last.op = "transcribe" /\ last.fault # NoExc) =>
        /\ last.outcome = "raise"
        /\ last.exc = last.fault
        /\ Logs(last.logged, last.fault)

C6_SynthesizeFailureSurfaced ==
    \A g \in 1..Len(gens) :
        gens[g].fault # NoExc =>
            /\ gens[g].state = "raised"
            /\ gens[g].exc = gens[g].fault
            /\ Logs(gens[g].logged, gens[g].fault)
            /\ gens[g].yielded = SelectSeq(gens[g].delivered, NonEmptyBytes)

C6_NeverRetried ==
    /\ Len(last.requests) <= 1
    /\ \A g \in 1..Len(gens) : Len(gens[g].requests) <= 1

\* C6: an exception raised inside transcribe's or synthesize's try block
\* (converting the audio, the vendor call, a vendor stream that fails after
\* some chunks) is logged and then reaches the caller as that exception, never
\* a normal result; no call makes more than one vendor call; and the consumer
\* of a failed synthesize has received exactly the non-empty bytes chunks
\* delivered before the failure, in order.
C6_FailuresLoggedAndSurfaced ==
    /\ C6_TranscribeFailureSurfaced
    /\ C6_SynthesizeFailureSurfaced
    /\ C6_NeverRetried

\* A vendor stream failed after delivering two non-empty chunks, which the
\* consumer has, and a transcribe call failed in the vendor call.
C6_Witness ==
    /\ last.op = "transcribe" /\ last.fault = VendorError /\ last.outcome = "raise"
    /\ \E g \in 1..Len(gens) :
          /\ gens[g].fault = StreamError
          /\ gens[g].state = "raised"
          /\ Len(gens[g].yielded) = 2

\* A generator the consumer has stopped iterating before the vendor stream
\* was exhausted, or that ended with an exception.
EndedEarly(gen) == gen.state \in {"abandoned", "closed", "raised"}

\* C7: whenever the consumer abandons or closes a synthesize sequence before
\* the vendor stream is exhausted, or the sequence ends with an exception,
\* the vendor stream is no longer open.
C7_StreamReleasedOnEarlyEnd ==
    \A g \in 1..Len(gens) : EndedEarly(gens[g]) => gens[g].stream # "open"

\* The settings keys the claim has the text-to-speech branch read.
C8_KeysClaimed ==
    {"elevenlabs_model_id", "elevenlabs_voice_id", "elevenlabs_stability",
     "elevenlabs_similarity_boost", "elevenlabs_style"}

\* C8: for 'elevenlabs-tts' with a non-empty API key, create_model reads the
\* model id, the voice id and the three numeric parameters from the settings,
\* and the adapter returned is made of the model id and the three numbers,
\* each the mapping's value or its default, the numbers as floats.
C8_TtsReadsModelVoiceAndNumbers ==
    (last.op = "create_model" /\ last.provider_id = "elevenlabs-tts"
        /\ last.outcome = "return") =>
        /\ C8_KeysClaimed \subseteq last.read
        /\ last.tts[1].model_id =
              get(last.settings, "elevenlabs_model_id", PyStr("eleven_flash_v2_5"))
        /\ last.tts[1].stability.t = "float"
        /\ last.tts[1].similarity_boost.t = "float"
        /\ last.tts[1].style.t = "float"

\* What create_model sets of an adapter.
SttConfig(a) == <<a.name, a.api_key, a.model_id, a.language_code>>
TtsConfig(a) ==
    <<a.name, a.api_key, a.model_id, a.stability, a.similarity_boost, a.style,
      a.use_speaker_boost>>

\* The adapters' clients and calls are their own.
C9_OwnClientAndConfig ==
    /\ \A i \in 1..Len(sttModels) :
          sttModels[i].client # NoClient =>
              /\ sttModels[i].client.owner = <<"stt", i>>
              /\ sttModels[i].client.api_key = sttModels[i].api_key
    /\ \A m \in 1..Len(ttsModels) :
          ttsModels[m].client # NoClient =>
              /\ ttsModels[m].client.owner = <<"tts", m>>
              /\ ttsModels[m].client.api_key = ttsModels[m].api_key
    /\ \A g \in 1..Len(gens) :
          LET gen == gens[g]
              a == ttsModels[gen.model]
          IN  /\ gen.client # NoClient => gen.client.owner = <<"tts", gen.model>>
              /\ \A k \in 1..Len(gen.requests) :
                    /\ gen.requests[k].model_id = a.model_id
                    /\ gen.requests[k].voice_settings =
                          [stability |-> a.stability,
                           similarity_boost |-> a.similarity_boost,
                           style |-> a.style,
                           use_speaker_boost |-> a.use_speaker_boost]
    /\ (last.op = "transcribe" /\ last.requests # <<>>) =>
          /\ last.client.owner = <<"stt", last.idx>>
          /\ last.client.api_key = sttModels[last.idx].api_key
          /\ last.requests[1]["model_id"] = sttModels[last.idx].model_id

\* No step changes what create_model set of an adapter held, a transcribe on
\* one adapter leaves every other adapter as it was, and create_model leaves
\* the adapters, clients and generators there were as they were.
C9_NoLeak ==
    /\ \A i \in 1..Len(sttModels) :
          /\ i <= Len(sttModels')
          /\ SttConfig(sttModels'[i]) = SttConfig(sttModels[i])
          /\ (last'.op = "transcribe" /\ last'.idx # i) =>
                sttModels'[i] = sttModels[i]
          /\ last'.op # "transcribe" => sttModels'[i] = sttModels[i]
    /\ \A m \in 1..Len(ttsModels) :
          /\ m <= Len(ttsModels')
          /\ TtsConfig(ttsModels'[m]) = TtsConfig(ttsModels[m])
          /\ last'.op = "transcribe" => ttsModels'[m] = ttsModels[m]
          /\ \A g \in 1..Len(gens) :
                (g <= Len(gens') /\ gens'[g] # gens[g] /\ gens[g].model # m) =>
                    ttsModels'[m] = ttsModels[m]
    /\ last'.op = "create_model" => UNCHANGED <<clients, gens>>

\* C9: of two adapters created from the same provider id with different
\* settings, under any interleaving of calls, each makes its vendor calls
\* with its own credential, model id and parameters through its own client;
\* a call on one changes no field of the other, and create_model changes
\* nothing but the adapter it returns.
C9_AdaptersIsolated ==
    [](C9_OwnClientAndConfig) /\ [][C9_NoLeak]_vars

\* Two text-to-speech adapters with different model ids and different
\* clients, a generator of each at its yield, the two interleaved.
C9_Witness ==
    /\ Len(ttsModels) = 2
    /\ ttsModels[1].model_id # ttsModels[2].model_id
    /\ ttsModels[1].api_key # ttsModels[2].api_key
    /\ Len(gens) = 2
    /\ gens[1].state = "suspended" /\ gens[2].state = "suspended"
    /\ gens[1].model # gens[2].model
    /\ gens[1].client # gens[2].client

\* Nothing of a generator's body has run before its first next().
C10_NothingBeforeFirstNext ==
    \A g \in 1..Len(gens) :
        gens[g].state = "created" =>
            /\ gens[g].client = NoClient /\ gens[g].made = {}
            /\ gens[g].requests = <<>>
            /\ gens[g].stream = "none"
            /\ gens[g].delivered = <<>>

\* A generator at its yield has pulled nothing past the chunk it yielded.
C10_NoReadAhead ==
    \A g \in 1..Len(gens) :
        gens[g].state = "suspended" =>
            /\ gens[g].delivered # <<>> /\ gens[g].yielded # <<>>
            /\ gens[g].delivered[Len(gens[g].delivered)]
                  = gens[g].yielded[Len(gens[g].yielded)]

\* Calling synthesize constructs no client and changes no adapter; a step of
\* a generator pulls chunks up to the next non-empty bytes chunk and no
\* further.
C10_StepByDemand ==
    /\ last'.op = "synthesize" => UNCHANGED <<clients, ttsModels, sttModels>>
    /\ \A g \in 1..Len(gens) :
          (g <= Len(gens') /\ gens'[g].model = gens[g].model
              /\ Len(gens'[g].delivered) > Len(gens[g].delivered)) =>
              \A k \in (Len(gens[g].delivered) + 1)..(Len(gens'[g].delivered) - 1) :
                  ~NonEmptyBytes(gens'[g].delivered[k])

\* C10: calling synthesize constructs no client and opens no vendor call;
\* that happens at the consumer's first request. Each request advances the
\* vendor stream to the next non-empty bytes chunk or to its end and no
\* further: the adapter holds no chunk it has pulled and not yielded.
C10_DrivenByDemand ==
    /\ [](C10_NothingBeforeFirstNext /\ C10_NoReadAhead)
    /\ [][C10_StepByDemand]_vars

\* A generator at its yield that skipped an empty chunk and a chunk that is
\* not bytes on the way to the one it yielded.
C10_Witness ==
    \E g \in 1..Len(gens) :
        /\ gens[g].state = "suspended"
        /\ gens[g].delivered = <<Bytes(<<>>), NotBytes(<<1>>), Bytes(<<2>>)>>
        /\ gens[g].yielded = <<Bytes(<<2>>)>>

====
